---------------------------- MODULE Spec2Model ----------------------------
(***************************************************************************)
(* A model of sanic_openapi/doc.py: the schema serialization engine        *)
(* (Field nodes, List, Object reflection, the definition registry and the  *)
(* serialize_schema dispatcher) and the route metadata store filled by the *)
(* documentation decorators.                                               *)
(*                                                                         *)
(* Python values are encoded so that two values of different Python types  *)
(* are never equal:                                                        *)
(*   None            PyNone           = [none |-> TRUE]                    *)
(*   True / False    PyBool(b)        = [bool |-> b]                       *)
(*   "text"          PyStr(s)         = [str |-> s]                        *)
(*   [a, b]          PyList(<<a, b>>) = [elems |-> <<a, b>>]               *)
(*   {"k": v}        a function with string domain; {} is EmptyDict        *)
(* The keys type, format, $ref and discriminator of a fragment always hold *)
(* strings and are kept as plain strings.                                  *)
(***************************************************************************)
EXTENDS Integers, Sequences, FiniteSets, TLC

VARIABLES
    classes,        \* the user classes that exist: id -> class object
    definitions,    \* doc.py:125, the definition registry
    result,         \* the last schema call and the value it returned
    constructed,    \* history: canonical names of the Objects the calls built
    route_specs,    \* doc.py:316, handler -> RouteSpec record
    heap,           \* the list objects the RouteSpec records refer to
    last,           \* history: the last decorator applied
    consumed,       \* history: per handler, the consumes calls made on it
    stack,          \* the Object.__init__ activations of a running call
    status          \* the running call: its phase, its class, the calls made

vars == <<classes, definitions, result, constructed, route_specs, heap, last,
          consumed, stack, status>>

schemaVars == <<classes, definitions, result, constructed>>

routeVars == <<route_specs, heap, last, consumed>>

runVars == <<stack, status>>

-----------------------------------------------------------------------------
(* Python values *)

PyNone == [none |-> TRUE]

PyBool(b) == [bool |-> b]

PyStr(s) == [str |-> s]

PyList(s) == [elems |-> s]

EmptyDict == [k \in {} |-> k]

IsNone(v) == "none" \in DOMAIN v

IsList(v) == "elems" \in DOMAIN v

IsTrue(v) == "bool" \in DOMAIN v /\ v.bool

\* a list of strings as a Python list
PyStrList(s) == PyList([i \in DOMAIN s |-> PyStr(s[i])])

\* bool(v) for the values the model holds
Truthy(v) ==
    IF "none" \in DOMAIN v THEN FALSE
    ELSE IF "bool" \in DOMAIN v THEN v.bool
    ELSE IF "str" \in DOMAIN v THEN v.str # ""
    ELSE IF "elems" \in DOMAIN v THEN v.elems # <<>>
    ELSE TRUE

\* v != [] (Field.serialize's test of self.required)
IsNotEmptyList(v) == ~("elems" \in DOMAIN v /\ v.elems = <<>>)

SeqToSet(s) == {s[i] : i \in DOMAIN s}

-----------------------------------------------------------------------------
(* Schema values: what user code hands to serialize_schema.                *)
(*   t = "class"      a user-defined class, cls its id                     *)
(*   t = "fieldclass" a Field subclass passed as a class, kind its name    *)
(*   t = "builtin"    one of int, float, str, bool, list, date, ...        *)
(*   t = "node"       a Field instance of class kind                       *)
(*   t = "list"       a raw Python list of schema values                   *)
(*   t = "other"      anything else                                        *)

Schema(t, kind, cls, name, description, required, choices, items) ==
    [t |-> t, kind |-> kind, cls |-> cls, name |-> name,
     description |-> description, required |-> required,
     choices |-> choices, items |-> items]

\* Field.__init__: description=None, required=[], name=None, choices=None
FieldInit(kind, description, required, name, choices) ==
    Schema("node", kind, "", name, description, required, choices, <<>>)

\* kind() with the defaults
FieldDefault(kind) == FieldInit(kind, PyNone, PyList(<<>>), PyNone, PyNone)

\* kind(required=r)
FieldRequired(kind, r) == FieldInit(kind, PyNone, r, PyNone, PyNone)

\* List.__init__(items): items is the list handed in (a Python list)
ListInit(items) ==
    Schema("node", "List", "", PyNone, PyNone, PyList(<<>>), PyNone, items)

\* Tuple(items): Tuple declares no __init__ of its own, so its first
\* positional argument is Field.__init__'s description
TupleInit(items) == FieldInit("Tuple", PyList(items), PyList(<<>>), PyNone, PyNone)

ClassRef(c) == Schema("class", "", c, PyNone, PyNone, PyList(<<>>), PyNone, <<>>)

FieldClass(kind) ==
    Schema("fieldclass", kind, "", PyNone, PyNone, PyList(<<>>), PyNone, <<>>)

Builtin(kind) ==
    Schema("builtin", kind, "", PyNone, PyNone, PyList(<<>>), PyNone, <<>>)

RawList(items) ==
    Schema("list", "", "", PyNone, PyNone, PyList(<<>>), PyNone, items)

-----------------------------------------------------------------------------
(* Field.serialize and the leaf nodes *)

\* Field.serialize: the name, description, required and enum keys
FieldSerialize(node) ==
    (IF Truthy(node.name) THEN "name" :> node.name ELSE EmptyDict)
    @@ (IF Truthy(node.description)
        THEN "description" :> node.description ELSE EmptyDict)
    @@ (IF IsNotEmptyList(node.required)
        THEN "required" :> node.required ELSE EmptyDict)
    @@ (IF ~IsNone(node.choices) THEN "enum" :> node.choices ELSE EmptyDict)

\* the {type, format?} pair each leaf class puts before **super().serialize()
TypeFormat(kind) ==
    CASE kind = "Integer" -> [type |-> "integer", format |-> "int64"]
      [] kind = "Float" -> [type |-> "number", format |-> "double"]
      [] kind \in {"String", "Discriminator"} -> [type |-> "string"]
      [] kind = "Boolean" -> [type |-> "boolean"]
      [] kind = "Date" -> [type |-> "string", format |-> "date"]
      [] kind = "DateTime" -> [type |-> "string", format |-> "date-time"]
      [] kind = "File" -> [type |-> "file"]
      [] kind = "UUID" -> [type |-> "string", format |-> "uuid"]
      [] OTHER -> EmptyDict

LeafKinds ==
    {"Integer", "Float", "String", "Discriminator", "Boolean", "Date",
     "DateTime", "File", "UUID", "Tuple", "Field"}

\* {"type": ..., **super().serialize()}: the keys of the right side win
LeafSerialize(node) == FieldSerialize(node) @@ TypeFormat(node.kind)

-----------------------------------------------------------------------------
(* Classes.  A class object is                                             *)
(*   [module, name, qualname, bases, attrs, hints, meta]                   *)
(* bases is __bases__ (ids, the root class object included), attrs the     *)
(* entries of __dict__ the class body assigned, in order, hints the        *)
(* entries of __annotations__, each an entry [key, value]; meta is PyNone  *)
(* when the class has no _meta attribute and else _meta's own __dict__.    *)
(* The dunder entries of __dict__ hold no schema value and are left out.   *)

Entry(key, value) == [key |-> key, value |-> value]

Keys(entries) == {entries[i].key : i \in DOMAIN entries}

\* key.startswith("_"), over the attribute names the classes here use
PrivateKeys == {"_tag", "_meta"}

StartsWithUnderscore(key) == key \in PrivateKeys

\* base.__name__ != "object"
IsNonRoot(c) == classes[c].name # "object"

RECURSIVE SelectNonRoot(_, _)
SelectNonRoot(bases, i) ==
    IF i > Len(bases) THEN <<>>
    ELSE (IF IsNonRoot(bases[i]) THEN <<bases[i]>> ELSE <<>>)
         \o SelectNonRoot(bases, i + 1)

\* loops over cls.__bases__ that act on none of the bases
NoBases(c) == <<>>

\* the bases the two loops over cls.__bases__ act on, in declaration order
NonRootBases(c) == SelectNonRoot(classes[c].bases, 1)

\* "{}.{}".format(cls.__module__, cls.__qualname__)
QualifiedName(c) == classes[c].module \o "." \o classes[c].qualname

\* object_name or cls.__name__
ObjectName(c, object_name) ==
    IF Truthy(object_name) THEN object_name.str ELSE classes[c].name

\* register_as = object_name or "{module}.{qualname}"
RegisterAs(c, object_name) ==
    IF Truthy(object_name) THEN object_name.str ELSE QualifiedName(c)

RefTo(name) == "#/definitions/" \o name

\* chain(cls.__dict__.items(), cls.__annotations__.items()), keys that start
\* with "_" dropped.  (cls.__annotations__ is the class's own mapping, as
\* from Python 3.10 on.)
Candidates(c) ==
    SelectSeq(classes[c].attrs \o classes[c].hints,
              LAMBDA e : ~StartsWithUnderscore(e.key))

\* Object.inheritanceRef
inheritanceRef(c) ==
    LET bases == NonRootBases(c)
    IN [i \in DOMAIN bases |-> "$ref" :> RefTo(classes[bases[i]].name)]

RECURSIVE FirstDiscriminator(_, _)
FirstDiscriminator(attrs, i) ==
    IF i > Len(attrs) THEN PyNone
    ELSE IF attrs[i].value.t = "node" /\ attrs[i].value.kind = "Discriminator"
         THEN PyStr(attrs[i].key)
         ELSE FirstDiscriminator(attrs, i + 1)

\* Object.getDiscriminatorName
getDiscriminatorName(c, properties) ==
    LET found == FirstDiscriminator(classes[c].attrs, 1)
        meta == classes[c].meta
    IN IF ~IsNone(found) THEN found
       ELSE IF IsNone(meta) THEN PyNone
       ELSE IF "discriminator" \notin DOMAIN meta THEN PyNone
       ELSE IF meta.discriminator \in DOMAIN properties
            THEN PyStr(meta.discriminator)
            ELSE PyNone

\* Object.getDiscriminatorDef
getDiscriminatorDef(obj) ==
    IF Truthy(obj.discriminator)
    THEN "discriminator" :> obj.discriminator.str ELSE EmptyDict

\* the object's own fragment in Object.definition
OwnFragment(obj) ==
    FieldSerialize(obj) @@ ("properties" :> obj.properties)
    @@ getDiscriminatorDef(obj) @@ ("type" :> "object")

\* Object.definition with the own fragment put first
definitionOwnFirst(obj) ==
    LET refs == inheritanceRef(obj.cls)
    IN IF refs # <<>> THEN "allOf" :> PyList(<<OwnFragment(obj)>> \o refs)
       ELSE OwnFragment(obj)

\* Object.definition
definition(obj) ==
    LET refs == inheritanceRef(obj.cls)
    IN IF refs # <<>> THEN "allOf" :> PyList(refs \o <<OwnFragment(obj)>>)
       ELSE OwnFragment(obj)

\* Object.serialize
ObjectSerialize(obj) == FieldSerialize(obj) @@ ("$ref" :> RefTo(obj.object_name))

\* serialized.pop(key)
Pop(d, key) == [k \in DOMAIN d \ {key} |-> d[k]]

\* the node the class branch of serialize_schema instantiates for a built-in
\* class or a Field subclass, and the List it wraps a raw list in; a Field
\* instance is taken as it is
AsNode(schema) ==
    CASE schema.t = "node" -> schema
      [] schema.t = "list" -> ListInit(schema.items)
      [] schema.t = "fieldclass" /\ schema.kind = "List" -> ListInit(<<>>)
      [] schema.t = "fieldclass" -> FieldDefault(schema.kind)
      [] schema.kind = "list" -> ListInit(<<>>)
      [] schema.kind = "int" -> FieldDefault("Integer")
      [] schema.kind = "float" -> FieldDefault("Float")
      [] schema.kind = "str" -> FieldDefault("String")
      [] schema.kind = "bool" -> FieldDefault("Boolean")
      [] schema.kind = "date" -> FieldDefault("Date")
      [] schema.kind = "datetime" -> FieldDefault("DateTime")
      [] schema.kind = "uuid" -> FieldDefault("UUID")

\* the registry after "if register_as not in definitions: definitions[..] = .."
Register(defs, obj, register_as) ==
    IF register_as \in DOMAIN defs THEN defs
    ELSE (register_as :> [obj |-> obj, definition |-> definition(obj)]) @@ defs

\* "if self.discriminator and self.discriminator not in self.requiredList:
\*      self.requiredList.append(self.discriminator)"
AddDiscriminator(requiredList, discriminator) ==
    IF Truthy(discriminator) /\ discriminator.str \notin SeqToSet(requiredList)
    THEN Append(requiredList, discriminator.str)
    ELSE requiredList

\* kwargs['required'] as Field.__init__ receives it
RequiredKwarg(kwargs, requiredList) ==
    IF "required" \in DOMAIN kwargs
    THEN PyList(kwargs["required"].elems \o PyStrList(requiredList).elems)
    ELSE PyStrList(requiredList)

Kwarg(kwargs, key) == IF key \in DOMAIN kwargs THEN kwargs[key] ELSE PyNone

\* the attributes Object.__init__ sets on self
NewObject(c, object_name, kwargs, properties, requiredList, discriminator) ==
    [cls |-> c,
     object_name |-> ObjectName(c, object_name),
     requiredList |-> requiredList,
     properties |-> properties,
     discriminator |-> discriminator,
     name |-> Kwarg(kwargs, "name"),
     description |-> Kwarg(kwargs, "description"),
     required |-> RequiredKwarg(kwargs, requiredList),
     choices |-> Kwarg(kwargs, "choices")]

\* "if serialized['required'] == True" in getSerializedFields
IsPromoted(serialized) ==
    "required" \in DOMAIN serialized /\ IsTrue(serialized["required"])

\* the fragment getSerializedFields returns
Stripped(serialized) ==
    IF IsPromoted(serialized) THEN Pop(serialized, "required") ELSE serialized

\* getSerializedFields on the fragment r.out that serialize_schema returned:
\* acc = [defs, properties, requiredList] after properties[key] is set
Promote(acc, key, r) ==
    [defs |-> r.defs,
     properties |-> (key :> Stripped(r.out)) @@ acc.properties,
     requiredList |-> IF IsPromoted(r.out)
                      THEN Append(acc.requiredList, key) ELSE acc.requiredList]

\* the value of List.serialize, r.out being the items it computed
ListFragment(node, r) ==
    [defs |-> r.defs,
     out |-> FieldSerialize(node) @@ ("items" :> r.out) @@ ("type" :> "array")]

\* the value of serialize_schema(cls), r.obj being the Object it built
RefResult(r) == [defs |-> r.defs, out |-> ObjectSerialize(r.obj)]

(* The calls below read and write the registry: each takes the registry    *)
(* and returns it, changed, with its value.                                *)
RECURSIVE serialize_schema(_, _)
RECURSIVE ObjectInit(_, _, _, _)
RECURSIVE getProperties(_, _, _)
RECURSIVE RegisterBases(_, _, _)

\* the items of List.serialize
ListItems(defs, node) ==
    IF Len(node.items) > 1
    THEN [defs |-> defs, out |-> LeafSerialize(TupleInit(node.items))]
    ELSE IF node.items # <<>>
         THEN serialize_schema(defs, node.items[1])
         ELSE [defs |-> defs, out |-> PyList(<<>>)]

\* List.serialize
ListSerialize(defs, node) == ListFragment(node, ListItems(defs, node))

\* schema.serialize() for a Field instance
NodeSerialize(defs, node) ==
    IF node.kind = "List" THEN ListSerialize(defs, node)
    ELSE [defs |-> defs, out |-> LeafSerialize(node)]

\* Object.getSerializedFields
getSerializedFields(acc, key, schema) ==
    Promote(acc, key, serialize_schema(acc.defs, schema))

\* Object.getProperties: the comprehension over the candidates from the i-th
getProperties(acc, cands, i) ==
    IF i > Len(cands) THEN acc
    ELSE getProperties(getSerializedFields(acc, cands[i].key, cands[i].value),
                       cands, i + 1)

\* Object.__init__ from "if register_as not in definitions" on
ObjectRegister(defs, obj, c, object_name) ==
    [defs |-> RegisterBases(Register(defs, obj, RegisterAs(c, object_name)),
                            NonRootBases(c), 1),
     obj |-> obj]

\* Object.__init__ after self.properties = self.getProperties(),
\* p = [defs, properties, requiredList]
ObjectFinish(p, c, object_name, kwargs) ==
    ObjectRegister(
        p.defs,
        NewObject(c, object_name, kwargs, p.properties,
                  AddDiscriminator(p.requiredList,
                                   getDiscriminatorName(c, p.properties)),
                  getDiscriminatorName(c, p.properties)),
        c, object_name)

\* Object.__init__(cls, object_name=object_name, **kwargs): the registry
\* after it and the Object it built
ObjectInit(defs, c, object_name, kwargs) ==
    ObjectFinish(getProperties([defs |-> defs, properties |-> EmptyDict,
                                requiredList |-> <<>>], Candidates(c), 1),
                 c, object_name, kwargs)

\* "for base in cls.__bases__: if base.__name__ != 'object': Object(base)"
RegisterBases(defs, bases, i) ==
    IF i > Len(bases) THEN defs
    ELSE RegisterBases(ObjectInit(defs, bases[i], PyNone, EmptyDict).defs,
                       bases, i + 1)

\* serialize_schema(schema): the registry after it and the fragment returned
serialize_schema(defs, schema) ==
    IF schema.t = "class"
    THEN RefResult(ObjectInit(defs, schema.cls, PyNone, EmptyDict))
    ELSE IF schema.t = "other"
         THEN [defs |-> defs, out |-> EmptyDict]
         ELSE NodeSerialize(defs, AsNode(schema))

-----------------------------------------------------------------------------
(* The classes the schema calls are run on *)

Root == [module |-> "builtins", name |-> "object", qualname |-> "object",
         bases |-> <<>>, attrs |-> <<>>, hints |-> <<>>, meta |-> PyNone]

Class(module, name, bases, attrs, hints, meta) ==
    [module |-> module, name |-> name, qualname |-> name, bases |-> bases,
     attrs |-> attrs, hints |-> hints, meta |-> meta]

\* One class, m.Animal, with every combination of these declarations:
\*   kind  = String() | String(required=True) | Discriminator()   (or none)
\*   _tag  = Discriminator()                                       (or none)
\*   name  = String(required=True)                                 (or none)
\*   kind: str | String(required=True) | Discriminator             (or none)
\*   _meta with no discriminator, discriminator = "kind" or "name" (or none)
KindAttrs ==
    {<<>>, <<Entry("kind", FieldDefault("String"))>>,
     <<Entry("kind", FieldRequired("String", PyBool(TRUE)))>>,
     <<Entry("kind", FieldDefault("Discriminator"))>>}

TagAttrs == {<<>>, <<Entry("_tag", FieldDefault("Discriminator"))>>}

NameAttrs == {<<>>, <<Entry("name", FieldRequired("String", PyBool(TRUE)))>>}

KindHints ==
    {<<>>, <<Entry("kind", Builtin("str"))>>,
     <<Entry("kind", FieldRequired("String", PyBool(TRUE)))>>,
     <<Entry("kind", FieldClass("Discriminator"))>>}

Metas == {PyNone, EmptyDict, [discriminator |-> "kind"], [discriminator |-> "name"]}

FieldTables ==
    {("object" :> Root) @@
     ("K1" :> Class("m", "Animal", <<"object">>, a1 \o a2 \o a3, h, meta)) :
        a1 \in KindAttrs, a2 \in TagAttrs, a3 \in NameAttrs,
        h \in KindHints, meta \in Metas}

\* Three classes: m.Animal; m.Cat, a root class or a subclass of Animal; and
\* a third class, m.Kitten or n.Animal, with any bases Python's method
\* resolution order admits, and a field whose value is the class m.Animal.
K2Bases == {<<"object">>, <<"K1">>}

K3Bases == {<<"object">>, <<"K1">>, <<"K2">>, <<"K2", "K1">>, <<"K1", "K2">>}

K3Names == {<<"m", "Kitten">>, <<"n", "Animal">>}

HierarchyTable(b2, n3, b3) ==
    ("object" :> Root)
    @@ ("K1" :> Class("m", "Animal", <<"object">>,
                      <<Entry("kind", FieldDefault("Discriminator")),
                        Entry("name", FieldRequired("String", PyBool(TRUE)))>>,
                      <<>>, PyNone))
    @@ ("K2" :> Class("m", "Cat", b2, <<>>,
                      <<Entry("lives", Builtin("int"))>>, PyNone))
    @@ ("K3" :> Class(n3[1], n3[2], b3,
                      <<Entry("owner", ClassRef("K1")),
                        Entry("name", FieldRequired("String", PyBool(TRUE)))>>,
                      <<>>, PyNone))

\* class K3(K1, K2) with K2 a subclass of K1 has no consistent MRO
HierarchyTables ==
    {HierarchyTable(t[1], t[2], t[3]) :
        t \in {u \in K2Bases \X K3Names \X K3Bases :
                  ~(u[3] = <<"K1", "K2">> /\ u[1] = <<"K1">>)}}

UserClasses == DOMAIN classes \ {"object"}

\* Object(cls, object_name=..., description=...) as user code writes it
ObjectArgs ==
    {[object_name |-> PyStr("Alias"), kwargs |-> EmptyDict],
     [object_name |-> PyStr("Alias"), kwargs |-> [description |-> PyStr("d")]]}

NoResult ==
    [op |-> "none", cls |-> "", object_name |-> PyNone, items |-> <<>>,
     out |-> EmptyDict]

NoLast ==
    [op |-> "none", h |-> "", n |-> 0, args |-> <<>>, content_type |-> PyNone,
     kw |-> EmptyDict]

\* per handler: k, the consumes calls with at least one field applied to it,
\* and routed, whether route() was given consumes_content_type for it
NoneConsumed == [h \in {"h1", "h2"} |-> [k |-> 0, routed |-> FALSE]]

Idle == [phase |-> "idle", cls |-> "", calls |-> 0]

InitSchema ==
    /\ definitions = EmptyDict
    /\ result = NoResult
    /\ constructed = {}
    /\ route_specs = EmptyDict
    /\ heap = EmptyDict
    /\ last = NoLast
    /\ consumed = NoneConsumed
    /\ stack = <<>>
    /\ status = Idle

Init ==
    /\ \/ classes \in FieldTables
       \/ classes \in HierarchyTables
    /\ InitSchema

\* a schema call returns r.out and leaves the registry r.defs
Returned(r, op, c, object_name) ==
    /\ definitions' = r.defs
    /\ result' = [op |-> op, cls |-> c, object_name |-> object_name,
                  items |-> <<>>, out |-> r.out]
    /\ constructed' = constructed \cup {ObjectName(c, object_name)}

\* serialize_schema(C) for a user class C
SerializeClass(c) ==
    /\ Returned(serialize_schema(definitions, ClassRef(c)),
                "serialize_schema", c, PyNone)
    /\ UNCHANGED <<classes, routeVars, runVars>>

\* serialize_schema(Object(C, object_name=..., **kwargs)): the Object is built,
\* then the instance branch of serialize_schema calls its serialize()
SerializeObject(c, args) ==
    /\ Returned(RefResult(ObjectInit(definitions, c, args.object_name,
                                     args.kwargs)),
                "Object", c, args.object_name)
    /\ UNCHANGED <<classes, routeVars, runVars>>

Next ==
    \/ \E c \in UserClasses : SerializeClass(c)
    \/ \E c \in UserClasses, args \in ObjectArgs : SerializeObject(c, args)

Spec == Init /\ [][Next]_vars

-----------------------------------------------------------------------------
(* List nodes: serialize_schema(List(items)) over lists of up to MaxItems   *)
(* items                                                                   *)

MaxItems == 3

ItemValues ==
    {FieldDefault("Integer"), FieldDefault("String"), FieldDefault("Boolean"),
     FieldRequired("String", PyBool(TRUE)), ListInit(<<FieldDefault("Integer")>>)}

ItemLists ==
    UNION {[1..n -> ItemValues] : n \in 0..MaxItems}

InitList ==
    /\ classes = ("object" :> Root)
    /\ InitSchema

\* a List call returns r.out
ListReturned(r, items) ==
    /\ definitions' = r.defs
    /\ result' = [op |-> "List", cls |-> "", object_name |-> PyNone,
                  items |-> items, out |-> r.out]

\* serialize_schema(List(items))
SerializeList(items) ==
    /\ ListReturned(serialize_schema(definitions, ListInit(items)), items)
    /\ UNCHANGED <<classes, constructed, routeVars, runVars>>

NextList == \E items \in ItemLists : SerializeList(items)

SpecList == InitList /\ [][NextList]_vars

-----------------------------------------------------------------------------
(* Properties of the schema engine *)

\* how often x occurs in the sequence s
Count(s, x) == Cardinality({i \in DOMAIN s : s[i] = x})

\* every class on the base chain of c, all levels, the root excluded
RECURSIVE Ancestors(_)
Ancestors(c) ==
    SeqToSet(NonRootBases(c))
    \cup UNION {Ancestors(b) : b \in SeqToSet(NonRootBases(c))}

\* the Objects the registry holds
Registered == {definitions[k].obj : k \in DOMAIN definitions}

\* the name a $ref fragment points to is a key of the registry
Resolves(fragment) ==
    \E k \in DOMAIN definitions : fragment["$ref"] = RefTo(k)

AllOfRefsResolve(d) ==
    "allOf" \in DOMAIN d =>
        \A i \in DOMAIN d["allOf"].elems :
            "$ref" \in DOMAIN d["allOf"].elems[i] => Resolves(d["allOf"].elems[i])

\* C1: after a schema call on a user class returns, the name in the returned
\* $ref and the name in every base-class $ref of a registered allOf list are
\* keys of the definition registry.
C1_RefsResolve ==
    result.op \in {"serialize_schema", "Object"} =>
        /\ Resolves(result.out)
        /\ \A k \in DOMAIN definitions : AllOfRefsResolve(definitions[k].definition)

\* C2: the registry holds an entry under the canonical name (the explicit
\* object_name, else the class's simple name) of every Object constructed,
\* that entry is for that name, and no call removes or replaces an entry.
C2_OneEntryPerCanonicalName ==
    [][/\ \A n \in constructed' :
             /\ n \in DOMAIN definitions'
             /\ definitions'[n].obj.object_name = n
       /\ \A k \in DOMAIN definitions :
             /\ k \in DOMAIN definitions'
             /\ definitions'[k] = definitions[k]]_vars

\* the declaration of field f that survives in properties: the last candidate
\* with that key
Survivor(c, f) ==
    LET cands == Candidates(c)
        last_i == CHOOSE i \in DOMAIN cands :
                     /\ cands[i].key = f
                     /\ \A j \in DOMAIN cands : cands[j].key = f => j <= i
    IN cands[last_i].value

\* the fragment of a declaration carries required: true
MarkedRequired(schema) == IsPromoted(serialize_schema(definitions, schema).out)

\* C3: no fragment of properties keeps required: true, every field whose
\* final fragment was marked required is in the required list exactly once,
\* and the list holds no other name but the discriminator.
C3_RequiredPromotion ==
    \A o \in Registered :
        /\ \A f \in DOMAIN o.properties : ~IsPromoted(o.properties[f])
        /\ \A f \in DOMAIN o.properties :
              MarkedRequired(Survivor(o.cls, f)) => Count(o.requiredList, f) = 1
        /\ \A i \in DOMAIN o.requiredList :
              /\ Count(o.requiredList, o.requiredList[i]) = 1
              /\ \/ o.discriminator = PyStr(o.requiredList[i])
                 \/ /\ o.requiredList[i] \in DOMAIN o.properties
                    /\ MarkedRequired(Survivor(o.cls, o.requiredList[i]))

\* the declared fields of c whose node type is Discriminator: an instance of
\* Discriminator, or the class itself as a type hint
DiscriminatorFields(c) ==
    {e.key : e \in {x \in SeqToSet(Candidates(c)) :
                       /\ x.value.t \in {"node", "fieldclass"}
                       /\ x.value.kind = "Discriminator"}}

\* the name _meta.discriminator gives, when it is one of the properties
MetaDiscriminator(o) ==
    LET meta == classes[o.cls].meta
    IN IF ~IsNone(meta) /\ "discriminator" \in DOMAIN meta
          /\ meta["discriminator"] \in DOMAIN o.properties
       THEN PyStr(meta["discriminator"]) ELSE PyNone

\* C8: every Discriminator-typed declared field is in the required list; the
\* discriminator is such a field when one exists, else the field _meta names
\* when it is a property, else none; and a discriminator is a property and
\* in the required list exactly once.
C8_DiscriminatorPromotion ==
    \A o \in Registered :
        /\ \A f \in DiscriminatorFields(o.cls) : f \in SeqToSet(o.requiredList)
        /\ IF DiscriminatorFields(o.cls) # {}
           THEN /\ Truthy(o.discriminator)
                /\ o.discriminator.str \in DiscriminatorFields(o.cls)
           ELSE o.discriminator = MetaDiscriminator(o)
        /\ Truthy(o.discriminator) =>
              /\ o.discriminator.str \in DOMAIN o.properties
              /\ Count(o.requiredList, o.discriminator.str) = 1

\* two fragments have the same keys and the same value under each
FragmentEq(a, b) == DOMAIN a = DOMAIN b /\ \A k \in DOMAIN a : a[k] = b[k]

\* the $ref to the i-th direct non-root base of c
BaseRef(c, i) == "$ref" :> RefTo(classes[NonRootBases(c)[i]].name)

\* the definition d is built for Object o as own(o) alone when o's class has
\* no non-root base, and else as allOf: one $ref per direct non-root base in
\* declaration order, own(o) last
Composed(d, o, own(_)) ==
    IF NonRootBases(o.cls) = <<>> THEN FragmentEq(d, own(o))
    ELSE /\ DOMAIN d = {"allOf"}
         /\ Len(d["allOf"].elems) = Len(NonRootBases(o.cls)) + 1
         /\ \A i \in DOMAIN NonRootBases(o.cls) :
               FragmentEq(d["allOf"].elems[i], BaseRef(o.cls, i))
         /\ FragmentEq(d["allOf"].elems[Len(d["allOf"].elems)], own(o))

\* after serialize_schema(B) every class on B's base chain has its entry
BaseChainRegistered ==
    result.op = "serialize_schema" =>
        \A a \in Ancestors(result.cls) : RegisterAs(a, PyNone) \in DOMAIN definitions

OptionalKey(present, key, value) == IF present THEN key :> value ELSE EmptyDict

\* {type: object, properties, required, discriminator?}
FlatFragment(o) ==
    [type |-> "object", properties |-> o.properties,
     required |-> PyStrList(o.requiredList)]
    @@ OptionalKey(Truthy(o.discriminator), "discriminator", o.discriminator.str)

\* C4 as stated: the definition registered for B is the flat fragment
\* {type: object, properties, required, discriminator?} when B has no
\* non-root base, and else allOf of the base $refs and that fragment; after
\* serialize_schema(B) the classes of B's base chain are registered.
C4_Original ==
    /\ \A k \in DOMAIN definitions :
          Composed(definitions[k].definition, definitions[k].obj, FlatFragment)
    /\ BaseChainRegistered

\* {type: object, properties, discriminator?}, with required only when the
\* required list is not empty, and with the name, description and enum the
\* Object node itself was constructed with
OwnKeys(o) ==
    [type |-> "object", properties |-> o.properties]
    @@ OptionalKey(Truthy(o.discriminator), "discriminator", o.discriminator.str)
    @@ OptionalKey(o.requiredList # <<>>, "required", PyStrList(o.requiredList))
    @@ OptionalKey(Truthy(o.name), "name", o.name)
    @@ OptionalKey(Truthy(o.description), "description", o.description)
    @@ OptionalKey(~IsNone(o.choices), "enum", o.choices)

\* C4, amended: as C4_Original, the own fragment carrying required only when
\* the required list is not empty (and the node's own name, description and
\* enum when the Object was constructed with them).
C4_Composition ==
    /\ \A k \in DOMAIN definitions :
          Composed(definitions[k].definition, definitions[k].obj, OwnKeys)
    /\ BaseChainRegistered

\* serialize_schema has returned for a class with two direct bases and a base
\* chain of two levels, and the class and a root class are registered
C4_Witness ==
    /\ result.op = "serialize_schema"
    /\ Len(NonRootBases(result.cls)) = 2
    /\ \E a \in Ancestors(result.cls) : NonRootBases(a) # <<>>
    /\ QualifiedName(result.cls) \in DOMAIN definitions
    /\ "allOf" \in DOMAIN definitions[QualifiedName(result.cls)].definition
    /\ \E k \in DOMAIN definitions :
          /\ NonRootBases(definitions[k].obj.cls) = <<>>
          /\ definitions[k].obj.requiredList # <<>>

\* the fragment of each item, in order
ItemFragments(items) ==
    [i \in DOMAIN items |-> serialize_schema(definitions, items[i]).out]

\* C5: List(items) serializes to {type: array, items: X}, X being {} for no
\* item, the item's own fragment for one item, and for two or more items the
\* array of the items' fragments, {type: array, items: [fragments]}.
C5_ListByItemCount ==
    result.op = "List" =>
        /\ DOMAIN result.out = {"type", "items"}
        /\ result.out["type"] = "array"
        /\ IF Len(result.items) = 0 THEN DOMAIN result.out["items"] = {}
           ELSE IF Len(result.items) = 1
                THEN FragmentEq(result.out["items"], ItemFragments(result.items)[1])
                ELSE FragmentEq(result.out["items"],
                                [type |-> "array",
                                 items |-> PyList(ItemFragments(result.items))])

-----------------------------------------------------------------------------
(* Route documenters.  A RouteSpec attribute that holds a list holds a      *)
(* reference [ref |-> id] to a list object of heap; the other attributes   *)
(* hold their value.  st = [specs, heap] is the store a decorator acts on. *)

Handlers == {"h1", "h2"}

Ref(owner, slot) == [ref |-> [owner |-> owner, slot |-> slot]]

\* RouteField.__init__(field, location=None, required=False, description=None)
RouteField(field, location, required, description) ==
    [field |-> field, location |-> location, required |-> required,
     description |-> description]

\* RouteSpec(): the class attributes are None, __init__ makes three new lists
RouteSpecInit(h) ==
    [consumes |-> Ref(h, "consumes"),
     consumes_content_type |-> PyNone,
     produces |-> PyNone,
     produces_content_type |-> PyNone,
     summary |-> PyNone,
     description |-> PyNone,
     operation |-> PyNone,
     blueprint |-> PyNone,
     tags |-> Ref(h, "tags"),
     exclude |-> PyNone,
     response |-> Ref(h, "response")]

\* route_specs[func] of the defaultdict: the record is made on first access
Touch(st, h) ==
    IF h \in DOMAIN st.specs THEN st
    ELSE [specs |-> (h :> RouteSpecInit(h)) @@ st.specs,
          heap |-> (Ref(h, "consumes").ref :> <<>>)
                   @@ (Ref(h, "tags").ref :> <<>>)
                   @@ (Ref(h, "response").ref :> <<>>) @@ st.heap]

\* route_specs[func].attr = value, the record existing
Assign(st, h, attr, value) == [st EXCEPT !.specs[h][attr] = value]

\* route_specs[func].attr = value
SetAttr(st, h, attr, value) == Assign(Touch(st, h), h, attr, value)

\* "if x is not None: route_spec.attr = x" for the keyword attr of route()
SetIfGiven(st, h, kw, attr) ==
    IF attr \in DOMAIN kw THEN Assign(st, h, attr, kw[attr]) ELSE st

\* the list object attr refers to gets entry appended, the record existing
AppendEntry(st, h, attr, entry) ==
    [st EXCEPT !.heap[st.specs[h][attr].ref] = Append(@, entry)]

\* route_specs[func].attr.append(entry)
AppendAttr(st, h, attr, entry) == AppendEntry(Touch(st, h), h, attr, entry)

\* route(**kw)(func): kw holds the keywords given a value other than None
RouteInner(st, h, kw) ==
    SetIfGiven(
     SetIfGiven(
      SetIfGiven(
       SetIfGiven(
        SetIfGiven(
         SetIfGiven(
          SetIfGiven(
           SetIfGiven(Touch(st, h), h, kw, "summary"),
           h, kw, "description"),
          h, kw, "consumes"),
         h, kw, "produces"),
        h, kw, "consumes_content_type"),
       h, kw, "produces_content_type"),
      h, kw, "exclude"),
     h, kw, "response")

\* the list a call leaves when it appends its content_type to the entries
\* the spec already holds
ConsumesContentTypeAppended(old, content_type) ==
    PyList((IF IsList(old) THEN old.elems ELSE <<>>) \o <<content_type>>)

\* "route_specs[func].consumes_content_type = [content_type]"
ConsumesContentType(old, content_type) == PyList(<<content_type>>)

\* the body of the loop "for arg in args" of consumes
ConsumesArg(st, h, arg, content_type, location, required) ==
    Assign(st, h, "consumes_content_type",
           ConsumesContentType(st.specs[h]["consumes_content_type"],
                               content_type))

RECURSIVE ConsumesLoop(_, _, _, _, _, _, _)
ConsumesLoop(st, h, args, i, content_type, location, required) ==
    IF i > Len(args) THEN st
    ELSE ConsumesLoop(
            ConsumesArg(AppendAttr(st, h, "consumes",
                                   RouteField(args[i], location, required,
                                              PyNone)),
                        h, args[i], content_type, location, required),
            h, args, i + 1, content_type, location, required)

\* consumes(*args, content_type=.., location=.., required=..)(func)
ConsumesInner(st, h, args, content_type, location, required) ==
    ConsumesLoop(st, h, args, 1, content_type, location, required)

\* produces(*args, description=.., content_type=..)(func)
ProducesInner(st, h, args, description, content_type) ==
    IF args # <<>>
    THEN SetAttr(SetAttr(st, h, "produces",
                         RouteField(args[1], PyNone, FALSE, description)),
                 h, "produces_content_type", PyList(<<content_type>>))
    ELSE st

\* response(*args, description=..)(func)
ResponseInner(st, h, args, description) ==
    IF args # <<>>
    THEN AppendAttr(st, h, "response",
                    <<args[1], RouteField(args[2], PyNone, FALSE, description)>>)
    ELSE st

\* the list objects user code passes to route(consumes=..) and
\* route(response=..)
UserHeap ==
    (Ref("user", "L1").ref :> <<RouteField(PyStr("f0"), PyNone, FALSE, PyNone)>>)
    @@ (Ref("user", "L2").ref :>
            <<<<PyStr("404"), RouteField(PyStr("f0"), PyNone, FALSE, PyNone)>>>>)

\* the keyword sets route() is called with
RouteKwargs ==
    {EmptyDict,
     [summary |-> PyStr("b")],
     [description |-> PyStr("a"), exclude |-> PyBool(TRUE)],
     [consumes |-> Ref("user", "L1")],
     [response |-> Ref("user", "L2")],
     [produces |-> RouteField(PyStr("f1"), PyNone, FALSE, PyNone),
      produces_content_type |-> PyList(<<PyStr("json")>>)],
     [consumes_content_type |-> PyList(<<PyStr("json")>>)]}

Texts == {PyStr("a"), PyStr("b")}

TagNames == {PyStr("x"), PyStr("y")}

FieldArgs == {<<>>, <<PyStr("f1")>>, <<PyStr("f1"), PyStr("f2")>>}

ContentTypes == {PyNone, PyStr("xml")}

\* the number of decorator applications of a run
MaxCalls == 3

InitRoute ==
    /\ classes = ("object" :> Root)
    /\ definitions = EmptyDict
    /\ result = NoResult
    /\ constructed = {}
    /\ route_specs = EmptyDict
    /\ heap = UserHeap
    /\ last = NoLast
    /\ consumed = NoneConsumed
    /\ stack = <<>>
    /\ status = Idle

\* a decorator was applied to h and left the store st
Applied(st, op, h, args, content_type, kw) ==
    /\ last.n < MaxCalls
    /\ route_specs' = st.specs
    /\ heap' = st.heap
    /\ last' = [op |-> op, h |-> h, n |-> last.n + 1, args |-> args,
                content_type |-> content_type, kw |-> kw]
    /\ consumed' =
          [consumed EXCEPT
              ![h] = [k |-> IF op = "consumes" /\ args # <<>>
                            THEN @.k + 1 ELSE @.k,
                      routed |-> @.routed
                                 \/ "consumes_content_type" \in DOMAIN kw]]
    /\ UNCHANGED <<schemaVars, runVars>>

Store == [specs |-> route_specs, heap |-> heap]

Route(h, kw) ==
    Applied(RouteInner(Store, h, kw), "route", h, <<>>, PyNone, kw)

Exclude(h, boolean) ==
    Applied(SetAttr(Store, h, "exclude", boolean), "exclude", h,
            <<boolean>>, PyNone, EmptyDict)

Summary(h, text) ==
    Applied(SetAttr(Store, h, "summary", text), "summary", h,
            <<text>>, PyNone, EmptyDict)

Description(h, text) ==
    Applied(SetAttr(Store, h, "description", text), "description", h,
            <<text>>, PyNone, EmptyDict)

Consumes(h, args, content_type) ==
    Applied(ConsumesInner(Store, h, args, content_type, PyStr("query"), FALSE),
            "consumes", h, args, content_type, EmptyDict)

Produces(h, args, content_type) ==
    Applied(ProducesInner(Store, h, args, PyNone, content_type),
            "produces", h, args, content_type, EmptyDict)

Response(h, args) ==
    Applied(ResponseInner(Store, h, args, PyNone), "response", h, args,
            PyNone, EmptyDict)

Tag(h, name) ==
    Applied(AppendAttr(Store, h, "tags", name), "tag", h, <<name>>, PyNone,
            EmptyDict)

Operation(h, name) ==
    Applied(SetAttr(Store, h, "operation", name), "operation", h, <<name>>,
            PyNone, EmptyDict)

NextRoute ==
    \E h \in Handlers :
        \/ \E kw \in RouteKwargs : Route(h, kw)
        \/ Exclude(h, PyBool(TRUE))
        \/ \E text \in Texts : Summary(h, text)
        \/ Description(h, PyStr("a"))
        \/ \E args \in FieldArgs, ct \in ContentTypes : Consumes(h, args, ct)
        \/ \E args \in {<<>>, <<PyStr("f1")>>} : Produces(h, args, PyStr("json"))
        \/ \E args \in {<<>>, <<PyStr("200"), PyStr("f1")>>} : Response(h, args)
        \/ \E name \in TagNames : Tag(h, name)
        \/ Operation(h, PyStr("a"))

SpecRoute == InitRoute /\ [][NextRoute]_vars

-----------------------------------------------------------------------------
(* Properties of the route documenters *)

IsPrefix(s, t) == Len(s) <= Len(t) /\ \A i \in DOMAIN s : s[i] = t[i]

\* the list attr of h's record holds in the store (specs, hp); no entry when
\* h has no record yet
ListOf(specs, hp, h, attr) ==
    IF h \in DOMAIN specs THEN hp[specs[h][attr].ref] ELSE <<>>

\* h's record in the store (specs, hp), each list attribute by its entries
ViewOf(specs, hp, h) ==
    [attr \in DOMAIN specs[h] |->
        IF "ref" \in DOMAIN specs[h][attr]
        THEN PyList(hp[specs[h][attr].ref]) ELSE specs[h][attr]]

\* the value the call l supplies for the scalar attribute attr, PyNone when
\* it supplies none
Supplied(l, attr) ==
    IF l.op = "route" /\ attr \in DOMAIN l.kw THEN l.kw[attr]
    ELSE IF l.op = attr THEN l.args[1]
    ELSE PyNone

ScalarAttrs == {"summary", "description", "operation", "exclude"}

\* C6: under every annotation call, route included, tags, consumes and
\* response of every handler keep their entries and only grow at the end,
\* and each scalar field holds the value of the latest call that set it.
C6_Accumulation ==
    [][\A h \in Handlers :
          /\ \A attr \in {"tags", "consumes", "response"} :
                IsPrefix(ListOf(route_specs, heap, h, attr),
                         ListOf(route_specs', heap', h, attr))
          /\ \A attr \in ScalarAttrs :
                IF last'.h = h /\ ~IsNone(Supplied(last', attr))
                THEN route_specs'[h][attr] = Supplied(last', attr)
                ELSE h \in DOMAIN route_specs =>
                        route_specs'[h][attr] = route_specs[h][attr]]_vars

\* the elements of consumes_content_type, none while it is None
ContentTypeEntries(specs, h) ==
    IF h \in DOMAIN specs /\ IsList(specs[h]["consumes_content_type"])
    THEN specs[h]["consumes_content_type"].elems ELSE <<>>

\* the step is a consumes call that supplies at least one field
ConsumesCalled == last'.op = "consumes" /\ last'.args # <<>>

\* consumes grows by one entry per field of the call
OneEntryPerField ==
    Len(ListOf(route_specs', heap', last'.h, "consumes"))
        = Len(ListOf(route_specs, heap, last'.h, "consumes")) + Len(last'.args)

\* C7 as stated: after k consumes calls with at least one field on a
\* handler (and no route(consumes_content_type=..) on it),
\* consumes_content_type has k entries.
C7_Original ==
    \A h \in Handlers :
        ~consumed[h].routed =>
            Len(ContentTypeEntries(route_specs, h)) = consumed[h].k

\* C7, amended: a consumes call with at least one field sets
\* consumes_content_type to a list of one entry, the call's content_type,
\* whatever the list held before, and appends one entry per field to consumes.
C7_ContentTypeReplaced ==
    [][ConsumesCalled =>
          /\ ContentTypeEntries(route_specs', last'.h) = <<last'.content_type>>
          /\ OneEntryPerField]_vars

\* a consumes call with two fields has followed a consumes call with one
\* field on the same handler: consumes holds three entries and
\* consumes_content_type the one entry of the later call
C7_Witness ==
    /\ last.op = "consumes"
    /\ Len(last.args) = 2
    /\ consumed[last.h].k = 2
    /\ route_specs[last.h]["consumes"] = Ref(last.h, "consumes")
    /\ Len(ListOf(route_specs, heap, last.h, "consumes")) = 3
    /\ ContentTypeEntries(route_specs, last.h) = <<last.content_type>>

\* C10: a call applied to handler h leaves the record of every other handler
\* unchanged, field for field.
C10_HandlerIsolation ==
    [][\A h \in DOMAIN route_specs :
          h # last'.h =>
             /\ h \in DOMAIN route_specs'
             /\ ViewOf(route_specs', heap', h) = ViewOf(route_specs, heap, h)]_vars


-----------------------------------------------------------------------------
(* Object construction, one activation of Object.__init__ at a time.  The   *)
(* stack holds the activations of the running call, the innermost last; a  *)
(* frame is [cls, origin, pc, i, properties, requiredList, obj]: origin is *)
(* the place the constructor was called from, pc the loop the activation   *)
(* is in (the comprehension of getProperties, then the loop over the       *)
(* bases), i the next entry of that loop, obj the Object once its          *)
(* attributes are set.  The interpreter ends a call whose stack would grow *)
(* beyond MaxDepth activations with RecursionError.                        *)

\* the activations the interpreter allows before it raises RecursionError
MaxDepth == 4

\* the number of serialize_schema calls of a run
MaxRunCalls == 2

RunClasses == {"K1", "K2", "K3"}

\* Three classes m.A, m.B, m.C.  A field "a" or "b" holds a class (set after
\* the class statement, so that it can be the class itself or a later one)
\* or a required String; B may derive from A, and C from A, B or both.
AFields == {<<>>, <<Entry("a", ClassRef("K1"))>>, <<Entry("a", ClassRef("K2"))>>}

BFields == {<<>>, <<Entry("a", ClassRef("K1"))>>, <<Entry("a", ClassRef("K3"))>>}

CFields ==
    {<<>>, <<Entry("a", ClassRef("K1"))>>, <<Entry("a", ClassRef("K2"))>>,
     <<Entry("a", ClassRef("K3"))>>,
     <<Entry("a", FieldRequired("String", PyBool(TRUE))),
       Entry("b", ClassRef("K2"))>>,
     <<Entry("a", ClassRef("K1")), Entry("b", ClassRef("K1"))>>}

CBases == {<<"object">>, <<"K1">>, <<"K2">>, <<"K2", "K1">>}

RunTables ==
    {("object" :> Root)
     @@ ("K1" :> Class("m", "A", <<"object">>, fa, <<>>, PyNone))
     @@ ("K2" :> Class("m", "B", bb, fb, <<>>, PyNone))
     @@ ("K3" :> Class("m", "C", bc, fc, <<>>, PyNone)) :
        fa \in AFields, fb \in BFields, fc \in CFields,
        bb \in K2Bases, bc \in CBases}

InitRun ==
    /\ classes \in RunTables
    /\ InitSchema

\* the activation Object(c) starts with
Frame(c, origin) ==
    [cls |-> c, origin |-> origin, pc |-> "properties", i |-> 1,
     properties |-> EmptyDict, requiredList |-> <<>>, obj |-> PyNone]

Top == stack[Len(stack)]

Caller == stack[Len(stack) - 1]

Popped == SubSeq(stack, 1, Len(stack) - 1)

\* the entry of the comprehension the innermost activation is at
Current == Candidates(Top.cls)[Top.i]

InProperties ==
    /\ status.phase = "running"
    /\ Top.pc = "properties"
    /\ Top.i <= Len(Candidates(Top.cls))

InBases ==
    /\ status.phase = "running"
    /\ Top.pc = "bases"
    /\ Top.i <= Len(NonRootBases(Top.cls))

\* the frame after properties[key] is set, p = [defs, properties, requiredList]
Advanced(frame, p) ==
    [frame EXCEPT !.i = @ + 1, !.properties = p.properties,
                  !.requiredList = p.requiredList]

\* the accumulator of getProperties a frame holds
Acc(frame) ==
    [defs |-> definitions, properties |-> frame.properties,
     requiredList |-> frame.requiredList]

\* the Object the activation has built when getProperties is done
Built(frame) ==
    NewObject(frame.cls, PyNone, EmptyDict, frame.properties,
              AddDiscriminator(frame.requiredList,
                               getDiscriminatorName(frame.cls, frame.properties)),
              getDiscriminatorName(frame.cls, frame.properties))

\* the registry and the stack after a field that is no class is serialized
FieldDone(p) ==
    /\ definitions' = p.defs
    /\ stack' = [stack EXCEPT ![Len(stack)] = Advanced(@, p)]

\* serialize_schema(C) is called
Call(c) ==
    /\ status.phase # "running"
    /\ status.calls < MaxRunCalls
    /\ status' = [phase |-> "running", cls |-> c, calls |-> status.calls + 1]
    /\ stack' = <<Frame(c, "call")>>
    /\ UNCHANGED <<schemaVars, routeVars>>

\* getSerializedFields on a field whose value is no class
StepField ==
    /\ InProperties
    /\ Current.value.t # "class"
    /\ FieldDone(getSerializedFields(Acc(Top), Current.key, Current.value))
    /\ UNCHANGED <<classes, result, constructed, routeVars, status>>

\* getSerializedFields on a field whose value is a class: serialize_schema
\* calls Object(schema)
StepEnter ==
    /\ InProperties
    /\ Current.value.t = "class"
    /\ Len(stack) < MaxDepth
    /\ stack' = Append(stack, Frame(Current.value.cls, "field"))
    /\ UNCHANGED <<schemaVars, routeVars, status>>

\* a constructor call the interpreter refuses: RecursionError unwinds the
\* whole call
StepOverflow ==
    /\ \/ InProperties /\ Current.value.t = "class"
       \/ InBases
    /\ Len(stack) >= MaxDepth
    /\ stack' = <<>>
    /\ status' = [status EXCEPT !.phase = "error"]
    /\ UNCHANGED <<schemaVars, routeVars>>

\* getProperties is done: the attributes are set and the Object registered
StepRegister ==
    /\ status.phase = "running"
    /\ Top.pc = "properties"
    /\ Top.i > Len(Candidates(Top.cls))
    /\ definitions' = Register(definitions, Built(Top),
                               RegisterAs(Top.cls, PyNone))
    /\ stack' = [stack EXCEPT ![Len(stack)] =
                    [@ EXCEPT !.pc = "bases", !.i = 1, !.obj = Built(Top)]]
    /\ UNCHANGED <<classes, result, constructed, routeVars, status>>

\* Object(base) for the next base that is not the root class
StepBase ==
    /\ InBases
    /\ Len(stack) < MaxDepth
    /\ stack' = Append([stack EXCEPT ![Len(stack)].i = @ + 1],
                       Frame(NonRootBases(Top.cls)[Top.i], "base"))
    /\ UNCHANGED <<schemaVars, routeVars, status>>

AtEnd ==
    /\ status.phase = "running"
    /\ Top.pc = "bases"
    /\ Top.i > Len(NonRootBases(Top.cls))

\* the outermost constructor returns, and serialize_schema its reference
ReturnToCall ==
    /\ AtEnd
    /\ Top.origin = "call"
    /\ stack' = <<>>
    /\ status' = [status EXCEPT !.phase = "returned"]
    /\ result' = [op |-> "serialize_schema", cls |-> Top.cls,
                  object_name |-> PyNone, items |-> <<>>,
                  out |-> ObjectSerialize(Top.obj)]
    /\ UNCHANGED <<classes, definitions, constructed, routeVars>>

\* Object(base) returns into the loop over the bases
ReturnToBases ==
    /\ AtEnd
    /\ Top.origin = "base"
    /\ stack' = Popped
    /\ UNCHANGED <<schemaVars, routeVars, status>>

\* Object(schema) returns into getSerializedFields, which stores the reference
ReturnToField ==
    /\ AtEnd
    /\ Top.origin = "field"
    /\ stack' = [Popped EXCEPT ![Len(stack) - 1] =
                    Advanced(@, Promote(Acc(Caller),
                                        Candidates(Caller.cls)[Caller.i].key,
                                        [defs |-> definitions,
                                         out |-> ObjectSerialize(Top.obj)]))]
    /\ UNCHANGED <<schemaVars, routeVars, status>>

StepRun ==
    \/ StepField
    \/ StepEnter
    \/ StepOverflow
    \/ StepRegister
    \/ StepBase
    \/ ReturnToCall
    \/ ReturnToBases
    \/ ReturnToField

NextRun ==
    \/ \E c \in RunClasses : Call(c)
    \/ StepRun

\* a call that has started keeps running: the interpreter takes its next step
SpecRun == InitRun /\ [][NextRun]_vars /\ WF_vars(StepRun)

-----------------------------------------------------------------------------
(* Properties of Object construction *)

\* the classes the fields of c hold
FieldClasses(c) ==
    {Candidates(c)[i].value.cls :
        i \in {j \in DOMAIN Candidates(c) : Candidates(c)[j].value.t = "class"}}

\* the bases of c other than the root class
BaseClasses(c) == {b \in SeqToSet(classes[c].bases) : IsNonRoot(b)}

Successors(c, fieldsOnly) ==
    IF fieldsOnly THEN FieldClasses(c) ELSE FieldClasses(c) \cup BaseClasses(c)

RECURSIVE Closure(_, _, _)
Closure(S, fieldsOnly, n) ==
    IF n = 0 THEN S
    ELSE Closure(S \cup UNION {Successors(c, fieldsOnly) : c \in S},
                 fieldsOnly, n - 1)

\* the classes reached from c in one step or more
ReachedFrom(c, fieldsOnly) ==
    Closure(Successors(c, fieldsOnly), fieldsOnly, Cardinality(RunClasses))

\* the graph of the field and base references has no cycle
Acyclic == \A c \in RunClasses : c \notin ReachedFrom(c, FALSE)

\* c is on a cycle of field references
OnFieldCycle(c) == c \in ReachedFrom(c, TRUE)

IsRegistered(c) == RegisterAs(c, PyNone) \in DOMAIN definitions

\* C9: when the field and base references of the classes form no cycle, a
\* serialize_schema(C) call returns, with C and every class reached from it
\* through fields and bases in the registry; a class on a cycle of field
\* references never gets a registry entry, and no call on it returns.
C9_Termination ==
    /\ \A c \in RunClasses :
          [](status.phase = "running" /\ status.cls = c /\ Acyclic
             => <>(/\ status.phase = "returned"
                   /\ status.cls = c
                   /\ \A d \in {c} \cup ReachedFrom(c, FALSE) : IsRegistered(d)))
    /\ [](\A c \in RunClasses :
             OnFieldCycle(c)
             => /\ ~IsRegistered(c)
                /\ ~(status.phase = "returned" /\ status.cls = c))

\* a call on a class of an acyclic graph has returned after it went through
\* a field that holds a class and through a base: the class reaches two
\* others, and all three are registered
C9_Witness ==
    /\ status.phase = "returned"
    /\ Acyclic
    /\ FieldClasses(status.cls) # {}
    /\ BaseClasses(status.cls) # {}
    /\ Cardinality(ReachedFrom(status.cls, FALSE)) = 2
    /\ \A d \in RunClasses : IsRegistered(d)

=============================================================================
